---- MODULE Spec2Model ----
(***************************************************************************)
(* Model of src/main.py (ai_pong): the Paddle and Ball sprites and the     *)
(* Engine frame loop.                                                      *)
(*                                                                         *)
(* A pygame Rect is modelled by its integer left/top corner and its fixed  *)
(* size; right, bottom and center are derived as pygame derives them.      *)
(* Speeds and paddle velocities range over integers, so every float the    *)
(* code computes is integer-valued and the float -> int truncation of a    *)
(* Rect assignment is exact.                                               *)
(***************************************************************************)
EXTENDS Integers, Sequences, FiniteSets, TLC

VARIABLES
    paddles,    \* Engine.__paddles: paddle id -> [left, top, y_movement, y_ceil]
    ball,       \* Engine.__ball: [left, top, mvx, mvy, speed, x_collided, width, height]
    state_id,   \* Engine.__state_id
    playing,    \* Engine.__playing
    pc,         \* position of the process in Engine.run / main
    hist        \* history: last operation, ball before its last tick, paddles
                \* before their last tick, phase before the last
                \* Engine.update, the ball as constructed, the value the
                \* last score() call returned

vars == <<paddles, ball, state_id, playing, pc, hist>>

----------------------------------------------------------------------------
(* Program constants *)

PaddleW == 20
PaddleH == 100
BallW == 20
BallH == 20
ScreenW == 1280
ScreenH == 720
MainBallX == 640
MainBallY == 360
MainPaddleLX == 0
MainPaddleRX == 1280
MainPaddleY == 360
MvX0 == 1
MvY0 == 4
DefaultSpeed == 1
NONE == 0
LEFT == -1
RIGHT == 1
PLAYING == 0
ROUND_END == 1

(* Bounds of the model *)

\* how far past the right border the ball's left edge may travel before the
\* model stops ticking it (the code never stops it)
MaxOvershoot == 3

\* ids of the two paddles main() builds
PaddleIds == {"L", "R"}

\* velocities the presentation layer hands to move_y in the engine runs
EngineDys == {-410, 410}

\* velocities handed to move_y when the engine is driven tick by tick
TickDys == {-205, 205}

\* velocities handed to move_y in the runs checked for progress
LiveDys == {410}

\* velocities handed to move_y when the paddle is exercised alone
PaddleDys == {-300, 0, 300}

\* initial centre heights of a paddle exercised alone: main's, top = 0,
\* bottom = y_ceil, top = y_ceil, bottom = 0
PaddleInitYs == {360, 50, 670, 770, -50}

\* Ball constructor arguments when the ball is exercised alone
BallSpeeds == {-1, 1, 2}
SmallField == <<48, 40>>
SmallInitXs == {5, 10, 24, 37}
SmallInitYs == {14, 20, 29}
\* further start heights in main()'s field, at its default speed: the ball
\* touching the top border, touching the bottom border, and next to them
EdgeInitYs == {10, 11, 12, 13, 707, 708, 709, 710}

----------------------------------------------------------------------------
(* pygame.Rect geometry *)

RectRight(left, w) == left + w
RectBottom(top, h) == top + h
\* getter of Rect.center / centerx / centery
RectCenter(left, top, w, h) == <<left + (w \div 2), top + (h \div 2)>>
\* setter of Rect.center: the corner that puts the centre at c
CornerOfCenter(c, w, h) == <<c[1] - (w \div 2), c[2] - (h \div 2)>>

(* Paddle *)

\* Paddle.__init__
NewPaddle(screen_height, pos) ==
    LET c == CornerOfCenter(pos, PaddleW, PaddleH)
    IN [left |-> c[1], top |-> c[2], y_movement |-> 0, y_ceil |-> screen_height]

PaddleTop(p) == p.top
PaddleBottom(p) == RectBottom(p.top, PaddleH)

\* Paddle.move_y
PaddleMoveY(p, dy) == [p EXCEPT !.y_movement = dy]

\* Paddle.update without its second test (the clamp at the zero line)
PaddleUpdateNoFloor(p) ==
    LET y1 == p.top + p.y_movement
        y2 == IF y1 > p.y_ceil THEN p.y_ceil ELSE y1
    IN [p EXCEPT !.top = y2]

\* Paddle.update
PaddleUpdate(p) ==
    LET y1 == p.top + p.y_movement
        y2 == IF y1 > p.y_ceil THEN p.y_ceil ELSE y1
        \* rect.bottom = 0.0 moves the rect so that top = -height
        y3 == IF RectBottom(y2, PaddleH) < 0 THEN 0 - PaddleH ELSE y2
    IN [p EXCEPT !.top = y3]

(* Ball *)

\* Ball.__init__
NewBall(screen_size, init_pos, speed) ==
    LET c == CornerOfCenter(init_pos, BallW, BallH)
    IN [left |-> c[1], top |-> c[2], mvx |-> MvX0, mvy |-> MvY0,
        speed |-> speed, x_collided |-> NONE,
        width |-> screen_size[1], height |-> screen_size[2]]

BallLeft(b) == b.left
BallRight(b) == RectRight(b.left, BallW)
BallTop(b) == b.top
BallBottom(b) == RectBottom(b.top, BallH)
BallCenter(b) == RectCenter(b.left, b.top, BallW, BallH)

\* dx, dy = self.movement_vec * self.speed
BallDx(b) == b.mvx * b.speed
BallDy(b) == b.mvy * b.speed

\* Ball.score()
BallScore(b) == b.x_collided

\* a score() that reads the flag and clears it
BallScoreCallClears(b) == [ret |-> b.x_collided, ball |-> [b EXCEPT !.x_collided = NONE]]

\* a call of Ball.score(): the value it returns and the ball it leaves
BallScoreCall(b) == [ret |-> BallScore(b), ball |-> b]

\* the horizontal border test with the two flag values exchanged
BallGoalCheckSwapped(b) ==
    IF BallLeft(b) + BallDx(b) < 0 THEN [b EXCEPT !.x_collided = RIGHT]
    ELSE IF BallRight(b) + BallDx(b) >= b.width THEN [b EXCEPT !.x_collided = LEFT]
    ELSE b

\* the horizontal border test with > for >= at the right border
BallGoalCheckStrict(b) ==
    IF BallLeft(b) + BallDx(b) < 0 THEN [b EXCEPT !.x_collided = LEFT]
    ELSE IF BallRight(b) + BallDx(b) > b.width THEN [b EXCEPT !.x_collided = RIGHT]
    ELSE b

\* horizontal border test of Ball.update
BallGoalCheck(b) ==
    IF BallLeft(b) + BallDx(b) < 0 THEN [b EXCEPT !.x_collided = LEFT]
    ELSE IF BallRight(b) + BallDx(b) >= b.width THEN [b EXCEPT !.x_collided = RIGHT]
    ELSE b

\* the vertical border test with > for >= at the bottom border
BallWallCheckStrict(b) ==
    IF BallTop(b) + BallDy(b) < 0
    THEN [b EXCEPT !.top = 0 - (BallTop(b) + BallDy(b)), !.mvy = 0 - b.mvy]
    ELSE IF BallBottom(b) + BallDy(b) > b.height
    THEN [b EXCEPT !.top = (2 * b.height - (BallBottom(b) + BallDy(b))) - BallH,
                   !.mvy = 0 - b.mvy]
    ELSE b

\* the vertical border test that turns the ball by the scaled step dy
\* instead of negating movement_vec[1]
BallWallCheckDy(b) ==
    IF BallTop(b) + BallDy(b) < 0
    THEN [b EXCEPT !.top = 0 - (BallTop(b) + BallDy(b)), !.mvy = 0 - BallDy(b)]
    ELSE IF BallBottom(b) + BallDy(b) >= b.height
    THEN [b EXCEPT !.top = (2 * b.height - (BallBottom(b) + BallDy(b))) - BallH,
                   !.mvy = 0 - BallDy(b)]
    ELSE b

\* the vertical border test without its bottom branch
BallWallCheckTopOnly(b) ==
    IF BallTop(b) + BallDy(b) < 0
    THEN [b EXCEPT !.top = 0 - (BallTop(b) + BallDy(b)), !.mvy = 0 - b.mvy]
    ELSE b

\* vertical border test of Ball.update
BallWallCheck(b) ==
    IF BallTop(b) + BallDy(b) < 0
    THEN [b EXCEPT !.top = 0 - (BallTop(b) + BallDy(b)), !.mvy = 0 - b.mvy]
    ELSE IF BallBottom(b) + BallDy(b) >= b.height
    THEN [b EXCEPT !.top = (2 * b.height - (BallBottom(b) + BallDy(b))) - BallH,
                   !.mvy = 0 - b.mvy]
    ELSE b

\* the position commit scaled by speed, like the border tests
BallAdvanceScaled(b) ==
    LET c == RectCenter(b.left, b.top, BallW, BallH)
        n == CornerOfCenter(<<c[1] + b.mvx * b.speed, c[2] + b.mvy * b.speed>>,
                            BallW, BallH)
    IN [b EXCEPT !.left = n[1], !.top = n[2]]

\* the position commit with the two components of movement_vec exchanged
BallAdvanceSwapped(b) ==
    LET c == RectCenter(b.left, b.top, BallW, BallH)
        n == CornerOfCenter(<<c[1] + b.mvy, c[2] + b.mvx>>, BallW, BallH)
    IN [b EXCEPT !.left = n[1], !.top = n[2]]

\* self.rect.center += self.movement_vec
BallAdvance(b) ==
    LET c == BallCenter(b)
        n == CornerOfCenter(<<c[1] + b.mvx, c[2] + b.mvy>>, BallW, BallH)
    IN [b EXCEPT !.left = n[1], !.top = n[2]]

\* Ball.update
BallUpdate(b) == BallAdvance(BallWallCheck(BallGoalCheck(b)))

(* Engine *)

\* Python values that Engine.update compares: an int, or a bound method
PyInt(n) == [kind |-> "int", val |-> n]
PyBoundMethod(name) == [kind |-> "method", val |-> name]
PyNe(a, b) == a # b

\* the expression self.__ball.score : the attribute, which is the bound
\* method object; the method is not called
BallScoreAttr(b) == PyBoundMethod("Ball.score")

\* pygame.Rect.colliderect of the ball's rect and a paddle's rect
Overlap(b, p) ==
    /\ b.left < RectRight(p.left, PaddleW) /\ p.left < BallRight(b)
    /\ b.top < PaddleBottom(p) /\ p.top < BallBottom(b)

\* Engine.update with a paddle bounce: a ball that ends its tick on a paddle
\* has the x component of its movement_vec inverted
EngineUpdateWithPaddleBounce(e) ==
    IF e.state_id = PLAYING
    THEN LET ps == [p \in DOMAIN e.paddles |-> PaddleUpdate(e.paddles[p])]
             b0 == BallUpdate(e.ball)
             b == IF \E p \in DOMAIN ps : Overlap(b0, ps[p])
                  THEN [b0 EXCEPT !.mvx = 0 - b0.mvx] ELSE b0
         IN [state_id |-> IF PyNe(BallScoreAttr(b), PyInt(0)) THEN ROUND_END
                          ELSE e.state_id,
             paddles |-> ps, ball |-> b]
    ELSE IF e.state_id = ROUND_END
    THEN [e EXCEPT !.state_id = PLAYING]
    ELSE e

\* Engine.update with self.__paddles.update() hoisted out of the state test:
\* the paddles move in the evaluation state too
EngineUpdateAlwaysMovesPaddles(e) ==
    LET ps == [p \in DOMAIN e.paddles |-> PaddleUpdate(e.paddles[p])]
    IN IF e.state_id = PLAYING
       THEN LET b == BallUpdate(e.ball)
            IN [state_id |-> IF PyNe(BallScoreAttr(b), PyInt(0)) THEN ROUND_END
                             ELSE e.state_id,
                paddles |-> ps, ball |-> b]
       ELSE IF e.state_id = ROUND_END
       THEN [e EXCEPT !.state_id = PLAYING, !.paddles = ps]
       ELSE e

\* Engine.update with `if` for `elif` at the second state test: a playing
\* tick falls through into the evaluation branch
EngineUpdateFallThrough(e) ==
    IF e.state_id = PLAYING
    THEN LET ps == [p \in DOMAIN e.paddles |-> PaddleUpdate(e.paddles[p])]
             b == BallUpdate(e.ball)
         IN [state_id |-> PLAYING, paddles |-> ps, ball |-> b]
    ELSE IF e.state_id = ROUND_END
    THEN [e EXCEPT !.state_id = PLAYING]
    ELSE e

\* Engine.update on the engine's data e = [state_id, paddles, ball]
EngineUpdate(e) ==
    IF e.state_id = PLAYING
    THEN LET ps == [p \in DOMAIN e.paddles |-> PaddleUpdate(e.paddles[p])]
             b == BallUpdate(e.ball)
         IN [state_id |-> IF PyNe(BallScoreAttr(b), PyInt(0)) THEN ROUND_END
                          ELSE e.state_id,
             paddles |-> ps, ball |-> b]
    ELSE IF e.state_id = ROUND_END
    THEN [e EXCEPT !.state_id = PLAYING]
    ELSE e

\* events the poll of one frame can return
PolledEvents == {"none", "QUIT", "K_ESCAPE", "K_0"}

\* Engine.events on one polled event: the new value of __playing
EventsPlaying(pl, ev) == IF ev \in {"QUIT", "K_ESCAPE"} THEN FALSE ELSE pl

\* the loop test of Engine.run written as `while True`
LoopHeadForever(pl) == "events"

\* while self.__playing: ... ; self.__quit()
LoopHead(pl) == IF pl THEN "events" ELSE "quit"

\* Engine.__quit without sys.exit(): run() returns, and the `while True` of
\* main() calls run() again
AfterQuitReturns(pl) == LoopHead(pl)

\* where the process is after Engine.__quit: sys.exit() raises SystemExit,
\* which nothing catches, so neither run() nor the `while True` of main()
\* goes on
AfterQuit(pl) == "exited"

----------------------------------------------------------------------------
(* The program: main() and Engine.run *)

MainPaddles ==
    [p \in PaddleIds |->
        NewPaddle(ScreenH, IF p = "L" THEN <<MainPaddleLX, MainPaddleY>>
                           ELSE <<MainPaddleRX, MainPaddleY>>)]

MainBall == NewBall(<<ScreenW, ScreenH>>, <<MainBallX, MainBallY>>, DefaultSpeed)

NewHist(b, ps) == [op |-> "init", ball |-> b, phase |-> PLAYING, ball0 |-> b,
                   ticked |-> FALSE, pads |-> ps, ret |-> NONE]

Init ==
    /\ paddles = MainPaddles
    /\ ball = MainBall
    /\ state_id = PLAYING
    /\ playing = TRUE
    /\ pc = LoopHead(TRUE)
    /\ hist = NewHist(MainBall, paddles)

\* the ball is still within the modelled stretch of its flight
InRange(b) == b.left <= b.width + MaxOvershoot

\* input applied by the presentation layer between frames: Paddle.move_y
MoveY(p, dy) ==
    /\ pc = "events"
    /\ paddles' = [paddles EXCEPT ![p] = PaddleMoveY(paddles[p], dy)]
    /\ hist' = [hist EXCEPT !.op = "Paddle.move_y"]
    /\ UNCHANGED <<ball, state_id, playing, pc>>

\* Engine.events
Events(ev) ==
    /\ pc = "events"
    /\ playing' = EventsPlaying(playing, ev)
    /\ pc' = "update"
    /\ hist' = [hist EXCEPT !.op = "Engine.events"]
    /\ UNCHANGED <<paddles, ball, state_id>>

\* Engine.update
Update ==
    /\ pc = "update"
    /\ InRange(ball)
    /\ LET e == EngineUpdate([state_id |-> state_id, paddles |-> paddles,
                              ball |-> ball])
       IN /\ state_id' = e.state_id
          /\ paddles' = e.paddles
          /\ ball' = e.ball
          /\ hist' = [hist EXCEPT !.op = "Engine.update",
                                  !.phase = state_id,
                                  !.ball = IF state_id = PLAYING THEN ball ELSE @,
                                  !.ticked = @ \/ state_id = PLAYING,
                                  !.pads = IF state_id = PLAYING THEN paddles ELSE @]
    /\ pc' = "draw"
    /\ UNCHANGED playing

\* Engine.draw, then the loop test of Engine.run
Draw ==
    /\ pc = "draw"
    /\ pc' = LoopHead(playing)
    /\ hist' = [hist EXCEPT !.op = "Engine.draw"]
    /\ UNCHANGED <<paddles, ball, state_id, playing>>

\* an exception raised inside the try block of Engine.run
Fail ==
    /\ pc \in {"events", "update", "draw"}
    /\ playing' = FALSE
    /\ pc' = LoopHead(FALSE)
    /\ hist' = [hist EXCEPT !.op = "except"]
    /\ UNCHANGED <<paddles, ball, state_id>>

\* Engine.__quit: pg.quit(); sys.exit()
Quit ==
    /\ pc = "quit"
    /\ pc' = AfterQuit(playing)
    /\ hist' = [hist EXCEPT !.op = "Engine.__quit"]
    /\ UNCHANGED <<paddles, ball, state_id, playing>>

Next ==
    \/ \E p \in PaddleIds, dy \in EngineDys : MoveY(p, dy)
    \/ \E ev \in PolledEvents : Events(ev)
    \/ Update
    \/ Draw
    \/ Fail
    \/ Quit

Spec == Init /\ [][Next]_vars

----------------------------------------------------------------------------
(* The ball alone: Ball(paddles, screen_size, init_pos, speed), then update *)

BallInits ==
    {NewBall(<<ScreenW, ScreenH>>, <<MainBallX, MainBallY>>, s) : s \in BallSpeeds}
    \cup {NewBall(SmallField, <<x, y>>, s) :
             x \in SmallInitXs, y \in SmallInitYs, s \in BallSpeeds}
    \cup {NewBall(<<ScreenW, ScreenH>>, <<MainBallX, y>>, DefaultSpeed) :
             y \in EdgeInitYs}

InitBall ==
    /\ paddles = MainPaddles
    /\ ball \in BallInits
    /\ state_id = PLAYING
    /\ playing = FALSE
    /\ pc = "ball"
    /\ hist = NewHist(ball, paddles)

BallTick ==
    /\ pc = "ball"
    /\ InRange(ball)
    /\ ball' = BallUpdate(ball)
    /\ hist' = [hist EXCEPT !.op = "Ball.update", !.ball = ball, !.ticked = TRUE]
    /\ UNCHANGED <<paddles, state_id, playing, pc>>

\* a caller reads the score: Ball.score()
ScoreCall ==
    /\ pc = "ball"
    /\ LET r == BallScoreCall(ball)
       IN /\ ball' = r.ball
          /\ hist' = [hist EXCEPT !.op = "Ball.score", !.ret = r.ret]
    /\ UNCHANGED <<paddles, state_id, playing, pc>>

NextBall ==
    \/ BallTick
    \/ ScoreCall

SpecBall == InitBall /\ [][NextBall]_vars

----------------------------------------------------------------------------
(* A paddle alone: Paddle(screen_height, pos), then move_y and update *)

InitPaddle ==
    /\ paddles \in [PaddleIds -> {NewPaddle(ScreenH, <<MainPaddleLX, y>>) :
                                     y \in PaddleInitYs}]
    /\ ball = MainBall
    /\ state_id = PLAYING
    /\ playing = FALSE
    /\ pc = "paddle"
    /\ hist = NewHist(MainBall, paddles)

PaddleSetVelocity(p, dy) ==
    /\ pc = "paddle"
    /\ paddles' = [paddles EXCEPT ![p] = PaddleMoveY(paddles[p], dy)]
    /\ hist' = [hist EXCEPT !.op = "Paddle.move_y"]
    /\ UNCHANGED <<ball, state_id, playing, pc>>

PaddleTick(p) ==
    /\ pc = "paddle"
    /\ paddles' = [paddles EXCEPT ![p] = PaddleUpdate(paddles[p])]
    /\ hist' = [hist EXCEPT !.op = "Paddle.update", !.pads = paddles]
    /\ UNCHANGED <<ball, state_id, playing, pc>>

NextPaddle ==
    \/ \E p \in PaddleIds, dy \in PaddleDys : PaddleSetVelocity(p, dy)
    \/ \E p \in PaddleIds : PaddleTick(p)

SpecPaddle == InitPaddle /\ [][NextPaddle]_vars

----------------------------------------------------------------------------
(* The engine driven tick by tick: main()'s objects, Engine.update called   *)
(* once per frame, Paddle.move_y called between the frames                  *)

InitEngine ==
    /\ paddles = MainPaddles
    /\ ball = MainBall
    /\ state_id = PLAYING
    /\ playing = TRUE
    /\ pc = "engine"
    /\ hist = NewHist(MainBall, paddles)

EngineInput(p, dy) ==
    /\ pc = "engine"
    /\ paddles' = [paddles EXCEPT ![p] = PaddleMoveY(paddles[p], dy)]
    /\ hist' = [hist EXCEPT !.op = "Paddle.move_y"]
    /\ UNCHANGED <<ball, state_id, playing, pc>>

EngineTick ==
    /\ pc = "engine"
    /\ InRange(ball)
    /\ LET e == EngineUpdate([state_id |-> state_id, paddles |-> paddles,
                              ball |-> ball])
       IN /\ state_id' = e.state_id
          /\ paddles' = e.paddles
          /\ ball' = e.ball
          /\ hist' = [hist EXCEPT !.op = "Engine.update",
                                  !.phase = state_id,
                                  !.ball = IF state_id = PLAYING THEN ball ELSE @,
                                  !.ticked = @ \/ state_id = PLAYING,
                                  !.pads = IF state_id = PLAYING THEN paddles ELSE @]
    /\ UNCHANGED <<playing, pc>>

NextEngine ==
    \/ \E p \in PaddleIds, dy \in TickDys : EngineInput(p, dy)
    \/ EngineTick

SpecEngine == InitEngine /\ [][NextEngine]_vars

NextEngineLive ==
    \/ \E p \in PaddleIds, dy \in LiveDys : EngineInput(p, dy)
    \/ EngineTick

\* the frames keep coming: the loop of Engine.run is sequential code that
\* goes on to its next update as long as nothing stops it
SpecEngineLive == InitEngine /\ [][NextEngineLive]_vars /\ WF_vars(EngineTick)

----------------------------------------------------------------------------
(* Properties *)

\* the last Engine.update ran in the playing state (and so ticked the ball)
PlayTick == hist.op = "Engine.update" /\ hist.phase = PLAYING
\* the last Engine.update ran in the evaluation state
EvalTick == hist.op = "Engine.update" /\ hist.phase = ROUND_END
\* the most recent ball tick is the one that set x_collided for the first time
FirstScore == hist.ticked /\ BallScore(hist.ball) = NONE /\ BallScore(ball) # NONE
\* the centre of the ball's playfield
FieldCentre(b) == <<b.width \div 2, b.height \div 2>>
\* the ball lies wholly inside its playfield
BallInside(b) ==
    /\ BallLeft(b) >= 0 /\ BallRight(b) <= b.width
    /\ BallTop(b) >= 0 /\ BallBottom(b) <= b.height
Sign(n) == IF n > 0 THEN 1 ELSE IF n < 0 THEN -1 ELSE 0

\* C1: the engine is in ROUND_END only in states where the ball has scored,
\* and an Engine tick in PLAYING after which the ball's scoreSide is still
\* NONE leaves the phase PLAYING.
C1_RoundEndOnlyWhenScored ==
    /\ state_id = ROUND_END => BallScore(ball) # NONE
    /\ (PlayTick /\ BallScore(ball) = NONE) => state_id = PLAYING

\* C2: the engine starts in PLAYING; at the end of the Engine tick in which
\* scoreSide first becomes non-NONE the phase is ROUND_END, and at the end of
\* the Engine tick that follows it the phase is PLAYING again.
C2_ScoringResponse ==
    /\ [](hist.op = "init" => state_id = PLAYING)
    /\ []((PlayTick /\ FirstScore) => state_id = ROUND_END)
    /\ [][(FirstScore /\ hist.phase = PLAYING /\ pc = "update" /\ pc' = "draw")
             => state_id' = PLAYING]_vars

\* C2 witness: the tick after the first scoring tick has run
C2_Witness ==
    /\ EvalTick /\ FirstScore
    /\ state_id = PLAYING

\* C3: after every Paddle tick, whatever velocity move_y has set, the
\* paddle's top edge is at most verticalBound and its bottom edge at least 0.
C3_PaddleClamp ==
    \A p \in PaddleIds :
        /\ PaddleTop(paddles[p]) <= paddles[p].y_ceil
        /\ PaddleBottom(paddles[p]) >= 0

\* C3 witness: a Paddle tick whose movement overshot the ceiling was clamped
C3_Witness ==
    /\ hist.op = "Paddle.update"
    /\ \E p \in PaddleIds :
          /\ hist.pads[p].top + hist.pads[p].y_movement > hist.pads[p].y_ceil
          /\ PaddleTop(paddles[p]) = paddles[p].y_ceil

\* C4: the paddle stays wholly inside the playfield: top >= 0 and
\* bottom <= verticalBound after any sequence of move_y calls and ticks.
C4_PaddleInsideField ==
    \A p \in PaddleIds :
        /\ PaddleTop(paddles[p]) >= 0
        /\ PaddleBottom(paddles[p]) <= paddles[p].y_ceil

\* C5: a Ball tick with pre-tick left + dx < 0 leaves scoreSide = LEFT; one
\* with left + dx >= 0 and right + dx >= width leaves scoreSide = RIGHT; and
\* scoreSide is always one of NONE, LEFT, RIGHT.
C5_HorizontalScoring ==
    /\ BallScore(ball) \in {NONE, LEFT, RIGHT}
    /\ hist.ticked =>
          /\ BallLeft(hist.ball) + BallDx(hist.ball) < 0
                => BallScore(ball) = LEFT
          /\ (/\ BallLeft(hist.ball) + BallDx(hist.ball) >= 0
              /\ BallRight(hist.ball) + BallDx(hist.ball) >= hist.ball.width)
                => BallScore(ball) = RIGHT

\* C5 witness: a Ball tick projected past the left border has set LEFT
C5_Witness ==
    /\ hist.op = "Ball.update"
    /\ BallLeft(hist.ball) + BallDx(hist.ball) < 0
    /\ BallScore(hist.ball) = NONE
    /\ BallScore(ball) = LEFT

\* C6: after a Ball tick whose pre-tick state has top + dy < 0, the sign of
\* movementDirection.y is the opposite of its pre-tick sign and the ball's
\* top edge equals the overflow distance -(top_pre + dy), which is >= 0.
C6_TopReflection ==
    (hist.ticked /\ BallTop(hist.ball) + BallDy(hist.ball) < 0) =>
        /\ Sign(ball.mvy) = 0 - Sign(hist.ball.mvy)
        /\ Sign(ball.mvy) # 0
        /\ BallTop(ball) = 0 - (BallTop(hist.ball) + BallDy(hist.ball))
        /\ BallTop(ball) >= 0

\* C7: one Ball tick of a ball centred at (640, 360) in the 1280x720 field
\* with movementDirection (1, 4) and speed 1 leaves the centre at (641, 364),
\* movementDirection unchanged and scoreSide NONE.
C7_SingleFreeStep ==
    (/\ hist.ticked
     /\ BallCenter(hist.ball) = <<640, 360>>
     /\ <<hist.ball.width, hist.ball.height>> = <<1280, 720>>
     /\ <<hist.ball.mvx, hist.ball.mvy>> = <<1, 4>>
     /\ hist.ball.speed = 1
     /\ BallScore(hist.ball) = NONE) =>
        /\ BallCenter(ball) = <<641, 364>>
        /\ <<ball.mvx, ball.mvy>> = <<1, 4>>
        /\ BallScore(ball) = NONE

\* C7 witness: that tick has just run
C7_Witness ==
    /\ PlayTick
    /\ BallCenter(hist.ball) = <<640, 360>>
    /\ <<hist.ball.mvx, hist.ball.mvy, hist.ball.speed>> = <<1, 4, 1>>
    /\ BallCenter(ball) = <<641, 364>>

\* C8: scoreSide is NONE at the start of every round: in the initial state
\* and whenever an Engine tick takes the phase from ROUND_END to PLAYING.
C8_ScoreResetAtRoundStart ==
    /\ hist.op = "init" => BallScore(ball) = NONE
    /\ (EvalTick /\ state_id = PLAYING) => BallScore(ball) = NONE

\* C9: for a ball that starts wholly inside the playfield with scoreSide NONE,
\* scoreSide changes at most once: a Ball tick that finds it LEFT or RIGHT
\* leaves it as it is.
C9_ScoreSetOnce ==
    (/\ BallInside(hist.ball0)
     /\ BallScore(hist.ball0) = NONE
     /\ hist.ticked
     /\ BallScore(hist.ball) # NONE) => BallScore(ball) = BallScore(hist.ball)

\* C10: whenever an Engine tick takes the phase from ROUND_END back to
\* PLAYING, the ball's centre is the centre of the playfield, (640, 360).
C10_BallCentredAtRoundStart ==
    (EvalTick /\ state_id = PLAYING) => BallCenter(ball) = FieldCentre(ball)

\* the step is an Engine.events / Engine.update / Engine.draw call, or the
\* except clause of Engine.run
EventsStep == pc = "events" /\ hist'.op = "Engine.events"
UpdateStep == pc = "update" /\ hist'.op = "Engine.update"
DrawStep == pc = "draw" /\ hist'.op = "Engine.draw"
ExceptStep == hist'.op = "except"
InFrame == pc \in {"events", "update", "draw"}

\* C11: in the frame whose event poll sees a quit request the engine update
\* and the draw still run (the poll hands over to update, update to draw, and
\* only then the loop is left), and after that frame no event poll, update or
\* draw is executed: the process goes to __quit and exits.
C11_QuitAfterFrame ==
    /\ [][(EventsStep /\ playing /\ ~playing') => pc' = "update"]_vars
    /\ [][(pc = "update" /\ ~playing /\ ~ExceptStep) => (UpdateStep /\ pc' = "draw")]_vars
    /\ [][(pc = "draw" /\ ~playing /\ ~ExceptStep) => (DrawStep /\ pc' = "quit")]_vars
    /\ [][(pc = "quit") => (pc' = "exited" /\ hist'.op = "Engine.__quit")]_vars
    /\ [][(pc = "exited") => FALSE]_vars

\* C11 witness: a frame that saw a quit request has run to the end of its
\* draw, and the loop has been left for __quit
C11_Witness ==
    /\ pc = "quit"
    /\ hist.op = "Engine.draw"
    /\ ~playing
    /\ hist.ticked

\* C12: an exception raised inside a frame skips the rest of the frame (the
\* engine's data are as the failing step found them), sets the running flag
\* to false and leads to __quit; after __quit the process has exited, so no
\* later frame runs and main() starts no second run.
C12_FailureEndsSession ==
    /\ [][ExceptStep => (/\ InFrame
                         /\ ~playing'
                         /\ pc' = "quit"
                         /\ <<paddles', ball', state_id'>> = <<paddles, ball, state_id>>)]_vars
    /\ [][(pc = "quit" /\ hist.op = "except")
             => (pc' = "exited" /\ <<paddles', ball', state_id'>> = <<paddles, ball, state_id>>)]_vars
    /\ [][(pc \in {"quit", "exited"}) => ~(InFrame')]_vars

\* C12 witness: an exception was raised in a frame after the ball had moved,
\* and the loop has been left for __quit
C12_Witness ==
    /\ pc = "quit"
    /\ ~playing
    /\ hist.op = "except"
    /\ hist.ticked

\* C13: a call of score() returns the ball's current scoreSide and changes
\* nothing of the ball, the paddles or the engine; two calls with no Ball tick
\* between them return the same value.
C13_ScoreIsPureRead ==
    /\ [][(pc = "ball" /\ hist'.op = "Ball.score")
             => (/\ hist'.ret = ball.x_collided
                 /\ <<ball', paddles', state_id', playing'>>
                       = <<ball, paddles, state_id, playing>>)]_vars
    /\ [][(hist.op = "Ball.score" /\ hist'.op = "Ball.score")
             => hist'.ret = hist.ret]_vars

\* C13 witness: score() was called on a ball that had scored on the right
C13_Witness ==
    /\ hist.op = "Ball.score"
    /\ hist.ret = RIGHT
    /\ ball.x_collided = RIGHT

TopContact(b) == BallTop(b) + BallDy(b) < 0
BottomContact(b) == ~TopContact(b) /\ BallBottom(b) + BallDy(b) >= b.height
Abs(n) == IF n < 0 THEN 0 - n ELSE n

C19_BallStaysInVertically ==
    (/\ hist.ball0.speed = DefaultSpeed
     /\ <<hist.ball0.mvx, hist.ball0.mvy>> = <<MvX0, MvY0>>
     /\ BallTop(hist.ball0) >= 0
     /\ BallBottom(hist.ball0) <= hist.ball0.height) =>
        /\ BallTop(ball) >= 0
        /\ BallBottom(ball) <= ball.height

\* C19 witness: in the 720-high field a ball that started touching the bottom
\* border has bounced off the bottom and later off the top
C19_Witness ==
    /\ hist.op = "Ball.update"
    /\ hist.ball0.speed = DefaultSpeed
    /\ hist.ball0.height = ScreenH
    /\ BallBottom(hist.ball0) = ScreenH
    /\ TopContact(hist.ball)

====
